---- MODULE Spec2Model ----
(***************************************************************************)
(* A model of s3_lifecycle_rule_configurator.py: main() enumerates the     *)
(* buckets by region and, for each bucket, reads its lifecycle rules and   *)
(* appends the abort-incomplete-multipart-upload rule when neither the     *)
(* capability nor the rule ID is already there.  The S3 and Account APIs   *)
(* are the environment: every call either answers or raises.               *)
(***************************************************************************)
EXTENDS Integers, Sequences, FiniteSets, TLC

\* ------------------------------------------------------------- bounds
\* Longest rule sequence a bucket starts with.
MaxRules == 2
\* Number of processes that run the script.
NumProcs == 2
\* Longest rule sequence the second bucket starts with when runs overlap.
MaxRulesConc == 1

Procs == 1..NumProcs

\* The process of the operator who runs the script time after time.
Operator == 1

\* ------------------------------------------------------- the environment
\* Python's None (a LocationConstraint of null, a variable not yet bound).
None == "None"

\* s3_client.list_buckets()['Buckets'], in listing order.
Names == <<"b1", "b2">>

BucketSet == {Names[i] : i \in 1..Len(Names)}

\* What get_bucket_location may report as LocationConstraint.
Locations == {None, "us-east-1", "af-south-1"}

\* Where the buckets lie: one region under its two names, an opt-in region
\* listed before and after the default one, and one opt-in region for both.
Placements ==
    {[b \in BucketSet |-> None],
     [b \in BucketSet |-> IF b = Names[1] THEN None ELSE "us-east-1"],
     [b \in BucketSet |-> IF b = Names[1] THEN "af-south-1" ELSE None],
     [b \in BucketSet |-> IF b = Names[1] THEN "us-east-1" ELSE "af-south-1"],
     [b \in BucketSet |-> "af-south-1"]}

\* account_client.get_region_opt_status(RegionName=region)
get_region_opt_status(region) ==
    IF region = "af-south-1"
    THEN [RegionName |-> region, RegionOptStatus |-> "ENABLED"]
    ELSE [RegionName |-> region, RegionOptStatus |-> "ENABLED_BY_DEFAULT"]

\* Error codes of a ClientError other than NoSuchLifecycleConfiguration.
OtherErrors == {"AccessDenied"}

\* The rule main() appends.
new_lifecycle_rule ==
    [ID |-> "delete-incomplete-mpu-7days",
     Status |-> "Enabled",
     Filter |-> [Prefix |-> ""],
     AbortIncompleteMultipartUpload |-> [DaysAfterInitiation |-> 7]]

\* Rules a bucket may already hold: two unrelated rules, an abort rule under
\* another ID, and a rule that has the desired ID but no abort action.
expire_logs ==
    [ID |-> "expire-logs",
     Status |-> "Enabled",
     Filter |-> [Prefix |-> "logs/"],
     Expiration |-> [Days |-> 30]]

archive_old ==
    [ID |-> "archive-old",
     Status |-> "Disabled",
     Filter |-> [Prefix |-> "old/"],
     Transition |-> [Days |-> 90, StorageClass |-> "GLACIER"]]

custom_mpu_cleanup ==
    [ID |-> "custom-mpu-cleanup",
     AbortIncompleteMultipartUpload |-> [DaysAfterInitiation |-> 3]]

same_id_rule ==
    [ID |-> "delete-incomplete-mpu-7days",
     Status |-> "Enabled",
     Filter |-> [Prefix |-> "tmp/"],
     Expiration |-> [Days |-> 7]]

RuleUniverse == {expire_logs, archive_old, custom_mpu_cleanup, same_id_rule}

\* S3 keeps the rule IDs of one configuration pairwise distinct.
UniqueIDs(rules) ==
    \A i, j \in 1..Len(rules) : i # j => rules[i].ID # rules[j].ID

\* The lifecycle configurations of at most n rules; <<>> is a bucket with no
\* lifecycle configuration.
RulesUpTo(n) ==
    {s \in UNION {[1..k -> RuleUniverse] : k \in 0..n} : UniqueIDs(s)}

\* The lifecycle configurations a bucket can start with.
RuleSets == RulesUpTo(MaxRules)

VARIABLES
    stored,         \* S3: bucket -> its lifecycle rules (<<>>: no configuration)
    location,       \* S3: bucket -> LocationConstraint
    pc,             \* run -> where main() is
    buckets,        \* run -> the dict list_buckets returned
    order,          \* run -> the order buckets.items() yields the regions in
    ri,             \* run -> index of the region being processed
    bi,             \* run -> index of the bucket within the region
    s3_client,      \* run -> the client of the current region
    current_rules,  \* run -> the list get_current_lifecycle returned
    error,          \* run -> the exception that left main(), or None
    reads,          \* run -> the get_bucket_lifecycle_configuration calls made
    puts,           \* run -> the put_bucket_lifecycle_configuration calls made
    prints,         \* run -> the lines printed
    past            \* what the operator's earlier runs of the script did

vars == <<stored, location, pc, buckets, order, ri, bi, s3_client,
          current_rules, error, reads, puts, prints, past>>

\* ------------------------------------------------------------ helpers
Range(f) == {f[x] : x \in DOMAIN f}

\* Python's `x or default`.
Or(x, default) == IF x = None \/ x = "" THEN default ELSE x

\* dict.get(key, default)
Get(d, key, default) == IF key \in DOMAIN d THEN d[key] ELSE default

\* All orders in which the elements of S can be iterated.
Perms(S) ==
    {p \in [1..Cardinality(S) -> S] : \A i, j \in 1..Cardinality(S) : i # j => p[i] # p[j]}

\* boto3.client('s3')
global_s3_client == "global"

\* boto3.client('s3', region_name=region)
regional_client(region) == region

\* ------------------------------------------------------ the functions
\* list_buckets: the regions of the names, then region -> names in it.
list_buckets(loc) ==
    LET regions == [i \in 1..Len(Names) |-> Or(loc[Names[i]], "us-east-1")]
        pick[i \in 0..Len(Names)] ==
            [region \in Range(regions) |->
                IF i = 0 THEN <<>>
                ELSE IF regions[i] = region
                     THEN Append(pick[i - 1][region], Names[i])
                     ELSE pick[i - 1][region]]
    IN  pick[Len(Names)]

is_region_opt_in(region) ==
    LET status == Get(get_region_opt_status(region), "RegionOptStatus", "ENABLED")
    IN  status # "ENABLED_BY_DEFAULT"

\* s3_client.get_bucket_lifecycle_configuration(Bucket=b): the answers S3
\* can give for a bucket whose rules are `rules`.
get_bucket_lifecycle_configuration(rules) ==
    (IF rules = <<>>
     THEN {[Error |-> [Code |-> "NoSuchLifecycleConfiguration"]]}
     ELSE {[Rules |-> rules]})
    \cup {[Error |-> [Code |-> c]] : c \in OtherErrors}

\* A faulty variant: every ClientError read as "no configuration".
get_current_lifecycle_masking(resp) ==
    IF "Error" \notin DOMAIN resp
    THEN [raised |-> None, value |-> Get(resp, "Rules", <<>>)]
    ELSE [raised |-> None, value |-> <<>>]

\* get_current_lifecycle on S3's answer: a returned list or a raised error.
get_current_lifecycle(resp) ==
    IF "Error" \notin DOMAIN resp
    THEN [raised |-> None, value |-> Get(resp, "Rules", <<>>)]
    ELSE IF resp.Error.Code = "NoSuchLifecycleConfiguration"
         THEN [raised |-> None, value |-> <<>>]
         ELSE [raised |-> resp.Error.Code, value |-> None]

\* main's test: any(['AbortIncompleteMultipartUpload' in rule for rule ...])
has_abort_rule(rules) ==
    \E i \in 1..Len(rules) : "AbortIncompleteMultipartUpload" \in DOMAIN rules[i]

\* check_and_append_lifecycle_rule's test: any([new['ID'] == rule['ID'] ...])
has_rule_id(rules, new) ==
    \E i \in 1..Len(rules) : new.ID = rules[i].ID

\* A faulty variant: the ID test made before the abort-rule test.
decide_id_first(rules, new) ==
    IF has_rule_id(rules, new) THEN "exists"
    ELSE IF has_abort_rule(rules) THEN "covered"
    ELSE "append"

\* A faulty variant: the ID test left out.
decide_no_id_test(rules, new) ==
    IF has_abort_rule(rules) THEN "covered" ELSE "append"

\* A faulty variant: both tests left out.
decide_always_append(rules, new) == "append"

\* What a bucket's pass comes to: the line printed and whether a put is made.
decide(rules, new) ==
    IF has_abort_rule(rules) THEN "covered"
    ELSE IF has_rule_id(rules, new) THEN "exists"
    ELSE "append"

\* A faulty variant: the new rule put first.
appended_front(rules, new) == <<new>> \o rules

\* A faulty variant: the list submitted without the new rule.
appended_forgot(rules, new) == rules

\* A faulty variant: only the new rule submitted.
appended_alone(rules, new) == <<new>>

\* current_rules.append(new_lifecycle_rule): the list submitted.
appended(rules, new) == Append(rules, new)

\* A faulty variant: s3_client bound once, before the loop, and kept when the region
\* is not opt-in.
select_client_kept(prev, region) ==
    IF is_region_opt_in(region) THEN regional_client(region)
    ELSE IF prev = None THEN global_s3_client ELSE prev

\* The client main() binds for a region (s3_client is rebound per region).
select_client(prev, region) ==
    IF is_region_opt_in(region) THEN regional_client(region) ELSE global_s3_client

\* ------------------------------------------------------ main's position
region_of(r) == order[r][ri[r]]

bucket_of(r) == buckets[r][region_of(r)][bi[r]]

\* The end of one bucket's pass: the next bucket, the next region, or the end.
advance(r) ==
    IF bi[r] < Len(buckets[r][region_of(r)])
    THEN [pc |-> "read", ri |-> ri[r], bi |-> bi[r] + 1]
    ELSE IF ri[r] < Len(order[r])
         THEN [pc |-> "region", ri |-> ri[r] + 1, bi |-> 0]
         ELSE [pc |-> "done", ri |-> ri[r], bi |-> bi[r]]

\* A faulty variant: a bucket's exception is swallowed and the loop goes on.
on_exception_swallowed(r) ==
    IF pc[r] \in {"read", "merge"}
    THEN advance(r)
    ELSE [pc |-> "failed", ri |-> ri[r], bi |-> bi[r]]

\* An exception nothing catches leaves main().
on_exception(r) == [pc |-> "failed", ri |-> ri[r], bi |-> bi[r]]

\* The lines an arrival at `pos` prints: the completion line at the end.
completion(pos) ==
    IF pos.pc = "done" THEN <<[Bucket |-> None, line |-> "completed"]>> ELSE <<>>

Goto(r, pos, lines) ==
    /\ pc' = [pc EXCEPT ![r] = pos.pc]
    /\ ri' = [ri EXCEPT ![r] = pos.ri]
    /\ bi' = [bi EXCEPT ![r] = pos.bi]
    /\ prints' = [prints EXCEPT ![r] = @ \o lines \o completion(pos)]

Init ==
    /\ stored \in [BucketSet -> RuleSets]
    /\ location \in Placements
    /\ pc = [r \in Procs |-> "idle"]
    /\ buckets = [r \in Procs |-> <<>>]
    /\ order = [r \in Procs |-> <<>>]
    /\ ri = [r \in Procs |-> 0]
    /\ bi = [r \in Procs |-> 0]
    /\ s3_client = [r \in Procs |-> None]
    /\ current_rules = [r \in Procs |-> <<>>]
    /\ error = [r \in Procs |-> None]
    /\ reads = [r \in Procs |-> <<>>]
    /\ puts = [r \in Procs |-> <<>>]
    /\ prints = [r \in Procs |-> <<>>]
    /\ past = [ran |-> FALSE, completed |-> FALSE, processed |-> {}, wrote |-> {}]

\* main, line 108: list_buckets answers.
Start(r) ==
    /\ pc[r] = "idle"
    /\ LET d == list_buckets(location)
       IN  /\ buckets' = [buckets EXCEPT ![r] = d]
           /\ \E p \in Perms(DOMAIN d) :
                /\ order' = [order EXCEPT ![r] = p]
                /\ Goto(r, IF Len(p) = 0
                           THEN [pc |-> "done", ri |-> 0, bi |-> 0]
                           ELSE [pc |-> "region", ri |-> 1, bi |-> 0], <<>>)
    /\ UNCHANGED <<stored, location, s3_client, current_rules, error, reads, puts, past>>

\* main, line 108: list_buckets or get_bucket_location raises.
StartFail(r) ==
    /\ pc[r] = "idle"
    /\ \E c \in OtherErrors : error' = [error EXCEPT ![r] = c]
    /\ Goto(r, on_exception(r), <<>>)
    /\ UNCHANGED <<stored, location, buckets, order, s3_client, current_rules,
                   reads, puts, past>>

\* main, lines 110-115: the client of the next region.
Region(r) ==
    /\ pc[r] = "region"
    /\ s3_client' = [s3_client EXCEPT ![r] = select_client(@, region_of(r))]
    /\ Goto(r, [pc |-> "read", ri |-> ri[r], bi |-> 1], <<>>)
    /\ UNCHANGED <<stored, location, buckets, order, current_rules, error,
                   reads, puts, past>>

\* main, line 114: get_region_opt_status raises.
RegionFail(r) ==
    /\ pc[r] = "region"
    /\ \E c \in OtherErrors : error' = [error EXCEPT ![r] = c]
    /\ Goto(r, on_exception(r), <<>>)
    /\ UNCHANGED <<stored, location, buckets, order, s3_client, current_rules,
                   reads, puts, past>>

\* main, line 118: get_current_lifecycle on the bucket.
Read(r) ==
    /\ pc[r] = "read"
    /\ \E resp \in get_bucket_lifecycle_configuration(stored[bucket_of(r)]) :
        LET res == get_current_lifecycle(resp)
        IN  /\ reads' = [reads EXCEPT ![r] = Append(@,
                    [Bucket |-> bucket_of(r), client |-> s3_client[r],
                     resp |-> resp, raised |-> res.raised, value |-> res.value])]
            /\ IF res.raised = None
               THEN /\ current_rules' = [current_rules EXCEPT ![r] = res.value]
                    /\ error' = error
                    /\ Goto(r, [pc |-> "merge", ri |-> ri[r], bi |-> bi[r]], <<>>)
               ELSE /\ current_rules' = current_rules
                    /\ error' = [error EXCEPT ![r] = res.raised]
                    /\ Goto(r, on_exception(r), <<>>)
    /\ UNCHANGED <<stored, location, buckets, order, s3_client, puts, past>>

\* main, lines 121-122, and check_and_append_lifecycle_rule, lines 85-86:
\* the bucket is left alone.
Skip(r) ==
    /\ pc[r] = "merge"
    /\ decide(current_rules[r], new_lifecycle_rule) # "append"
    /\ Goto(r, advance(r),
            <<[Bucket |-> bucket_of(r),
               line |-> decide(current_rules[r], new_lifecycle_rule)]>>)
    /\ UNCHANGED <<stored, location, buckets, order, s3_client, current_rules,
                   error, reads, puts, past>>

\* check_and_append_lifecycle_rule, lines 88-93: append, put, print.
Put(r) ==
    /\ pc[r] = "merge"
    /\ decide(current_rules[r], new_lifecycle_rule) = "append"
    /\ LET rules == appended(current_rules[r], new_lifecycle_rule)
       IN  /\ current_rules' = [current_rules EXCEPT ![r] = rules]
           /\ stored' = [stored EXCEPT ![bucket_of(r)] = rules]
           /\ puts' = [puts EXCEPT ![r] = Append(@,
                    [Bucket |-> bucket_of(r), client |-> s3_client[r],
                     Rules |-> rules, ok |-> TRUE])]
    /\ Goto(r, advance(r), <<[Bucket |-> bucket_of(r), line |-> "appended"]>>)
    /\ UNCHANGED <<location, buckets, order, s3_client, error, reads, past>>

\* check_and_append_lifecycle_rule, lines 88-89: the put raises.
PutFail(r) ==
    /\ pc[r] = "merge"
    /\ decide(current_rules[r], new_lifecycle_rule) = "append"
    /\ LET rules == appended(current_rules[r], new_lifecycle_rule)
       IN  /\ current_rules' = [current_rules EXCEPT ![r] = rules]
           /\ puts' = [puts EXCEPT ![r] = Append(@,
                    [Bucket |-> bucket_of(r), client |-> s3_client[r],
                     Rules |-> rules, ok |-> FALSE])]
    /\ \E c \in OtherErrors : error' = [error EXCEPT ![r] = c]
    /\ Goto(r, on_exception(r), <<>>)
    /\ UNCHANGED <<stored, location, buckets, order, s3_client, reads, past>>

Ended(r) == pc[r] \in {"done", "failed"}

\* The buckets run r printed a line about, and those it stored rules in.
processed_by(r) ==
    {prints[r][k].Bucket : k \in 1..Len(prints[r])} \cap BucketSet

written_by(r) ==
    {puts[r][k].Bucket : k \in {i \in 1..Len(puts[r]) : puts[r][i].ok}}

\* The script is run again: a new process image, nothing kept but S3's state.
Restart(r) ==
    /\ Ended(r)
    /\ past' = [ran |-> TRUE,
                completed |-> past.completed \/ pc[r] = "done",
                processed |-> past.processed \cup processed_by(r),
                wrote |-> past.wrote \cup written_by(r)]
    /\ pc' = [pc EXCEPT ![r] = "idle"]
    /\ buckets' = [buckets EXCEPT ![r] = <<>>]
    /\ order' = [order EXCEPT ![r] = <<>>]
    /\ ri' = [ri EXCEPT ![r] = 0]
    /\ bi' = [bi EXCEPT ![r] = 0]
    /\ s3_client' = [s3_client EXCEPT ![r] = None]
    /\ current_rules' = [current_rules EXCEPT ![r] = <<>>]
    /\ error' = [error EXCEPT ![r] = None]
    /\ reads' = [reads EXCEPT ![r] = <<>>]
    /\ puts' = [puts EXCEPT ![r] = <<>>]
    /\ prints' = [prints EXCEPT ![r] = <<>>]
    /\ UNCHANGED <<stored, location>>

\* One operator runs the script, and runs it again when it has ended.
Next ==
    \/ Start(Operator)
    \/ StartFail(Operator)
    \/ Region(Operator)
    \/ RegionFail(Operator)
    \/ Read(Operator)
    \/ Skip(Operator)
    \/ Put(Operator)
    \/ PutFail(Operator)
    \/ Restart(Operator)

Spec == Init /\ [][Next]_vars

\* Several processes run the script once each: nothing coordinates them.
NextConc ==
    \E r \in Procs :
        \/ Start(r)
        \/ StartFail(r)
        \/ Region(r)
        \/ RegionFail(r)
        \/ Read(r)
        \/ Skip(r)
        \/ Put(r)
        \/ PutFail(r)

\* Overlapping runs are followed over two buckets of one region, listed
\* under the region's two names.
InitConc ==
    /\ Init
    /\ location = [b \in BucketSet |-> IF b = Names[1] THEN None ELSE "us-east-1"]
    /\ stored[Names[2]] \in RulesUpTo(MaxRulesConc)

SpecConc == InitConc /\ [][NextConc]_vars

\* ------------------------------------------------------- properties
\* What the properties read off a rule sequence, stated on the rules alone.
IsAbortRule(rule) == "AbortIncompleteMultipartUpload" \in DOMAIN rule

Covered(rules) == \E i \in 1..Len(rules) : IsAbortRule(rules[i])

DesiredID == "delete-incomplete-mpu-7days"

HasDesiredID(rules) == \E i \in 1..Len(rules) : rules[i].ID = DesiredID

Neither(rules) == ~Covered(rules) /\ ~HasDesiredID(rules)

\* The puts run r attempted on bucket b, and the lines it printed about b.
PutsOf(r, b) == SelectSeq(puts[r], LAMBDA e : e.Bucket = b)

LinesOf(r, b) == SelectSeq(prints[r], LAMBDA e : e.Bucket = b)

\* Run r holds the rules it read from b and has not yet acted on them.
Merging(r, b) == pc[r] = "merge" /\ bucket_of(r) = b

\* Run r's pass over b ended with a line about b.
Processed(r, b) == LinesOf(r, b) # <<>>

\* The successful reads of run r.
GoodReads(r) == {k \in 1..Len(reads[r]) : reads[r][k].raised = None}

\* Run r leaves the merge of the rules it read (its step, not another run's).
LeavesMerge(r) == pc[r] = "merge" /\ pc'[r] # "merge"

\* The line about bucket b that run r's step adds.
AddsLine(r, b, line) ==
    /\ Len(prints'[r]) > Len(prints[r])
    /\ prints'[r][Len(prints[r]) + 1] = [Bucket |-> b, line |-> line]
    /\ \A k \in 1..Len(prints[r]) : prints'[r][k] = prints[r][k]

\* C1: a bucket read with neither an abort rule nor the desired rule ID gets
\* exactly one put_bucket_lifecycle_configuration call from the run, issued
\* when the run acts on what it read, and the rules submitted are the rules
\* read, in their order, followed by the desired rule.
C1_AppendExactlyOnce ==
    \A r \in Procs : \A k \in GoodReads(r) :
        LET e == reads[r][k]
        IN  Neither(e.value) =>
                IF Merging(r, e.Bucket)
                THEN PutsOf(r, e.Bucket) = <<>>
                ELSE /\ Len(PutsOf(r, e.Bucket)) = 1
                     /\ PutsOf(r, e.Bucket)[1].Rules = e.value \o <<new_lifecycle_rule>>

\* A run that ended well after putting two unrelated rules and the new one.
C1_Witness ==
    \E r \in Procs : \E k \in 1..Len(puts[r]) :
        /\ pc[r] = "done"
        /\ puts[r][k].ok
        /\ puts[r][k].Rules = <<archive_old, expire_logs, new_lifecycle_rule>>

\* C2: a bucket read with an abort rule, whatever the rule's ID and whether
\* or not the desired ID is there too, is reported as already covered, gets
\* no put, and the step leaves the list read and every stored rule set as
\* they were.
C2_CoveredIsLeftAlone ==
    [][\A r \in Procs :
        (LeavesMerge(r) /\ Covered(current_rules[r])) =>
            /\ AddsLine(r, bucket_of(r), "covered")
            /\ puts' = puts
            /\ current_rules'[r] = current_rules[r]
            /\ stored' = stored
            /\ pc'[r] # "failed"]_vars

\* A bucket whose abort rule has another ID and which also holds a rule of
\* the desired ID was reported as covered.
C2_Witness ==
    \E r \in Procs : \E k \in GoodReads(r) :
        /\ Covered(reads[r][k].value)
        /\ HasDesiredID(reads[r][k].value)
        /\ \A i \in 1..Len(reads[r][k].value) :
              IsAbortRule(reads[r][k].value[i]) => reads[r][k].value[i].ID # DesiredID
        /\ LinesOf(r, reads[r][k].Bucket) =
              <<[Bucket |-> reads[r][k].Bucket, line |-> "covered"]>>

\* C3: a bucket read with no abort rule but with a rule of the desired ID is
\* reported as already present by ID, gets no put, and the step leaves the
\* list read and every stored rule set as they were; the abort-rule test
\* comes first, so "exists" is never said of a bucket that has an abort rule.
C3_SameIdIsLeftAlone ==
    [][\A r \in Procs :
        /\ (LeavesMerge(r) /\ ~Covered(current_rules[r]) /\ HasDesiredID(current_rules[r])) =>
            /\ AddsLine(r, bucket_of(r), "exists")
            /\ puts' = puts
            /\ current_rules'[r] = current_rules[r]
            /\ stored' = stored
            /\ pc'[r] # "failed"
        /\ (LeavesMerge(r) /\ Covered(current_rules[r])) =>
            ~AddsLine(r, bucket_of(r), "exists")]_vars

\* A bucket holding only a rule of the desired ID without the abort action
\* was reported as present by ID.
C3_Witness ==
    \E r \in Procs : \E k \in GoodReads(r) :
        /\ reads[r][k].value = <<same_id_rule>>
        /\ LinesOf(r, reads[r][k].Bucket) =
              <<[Bucket |-> reads[r][k].Bucket, line |-> "exists"]>>

\* The rules run r read from bucket b.
ReadValue(r, b) ==
    reads[r][CHOOSE k \in GoodReads(r) : reads[r][k].Bucket = b].value

\* The buckets run r enumerated.
Enumerated(r) == UNION {Range(buckets[r][g]) : g \in DOMAIN buckets[r]}

\* C4 as stated: whatever rule set a bucket starts with, the first run over
\* it writes.
C4_FirstRunAlwaysWrites ==
    \A r \in Procs : \A b \in BucketSet :
        (~past.ran /\ Processed(r, b)) => PutsOf(r, b) # <<>>

\* C4, amended: a run's pass over a bucket writes once when the rules read
\* have neither an abort rule nor the desired ID and not at all otherwise; a
\* later run over a bucket an earlier run has processed never writes it; and
\* once a run has completed, no later run puts anything or changes any
\* bucket's stored rules.
C4_Idempotent ==
    /\ [](\A r \in Procs : \A b \in BucketSet :
            /\ Processed(r, b) =>
                  Len(PutsOf(r, b)) = IF Neither(ReadValue(r, b)) THEN 1 ELSE 0
            /\ b \in past.processed => PutsOf(r, b) = <<>>
            /\ past.completed => puts[r] = <<>>)
    /\ [][(past.completed \/ \E q \in Procs : pc[q] = "done") => stored' = stored]_vars

\* An earlier run wrote both buckets and completed, and a later run, over
\* what was left, read both and completed without a put.
C4_Witness ==
    /\ past.completed
    /\ past.wrote = BucketSet
    /\ pc[Operator] = "done"
    /\ Len(reads[Operator]) = Len(Names)
    /\ puts[Operator] = <<>>

\* C5 as stated: after a completed run every bucket holds an abort rule.
C5_EveryBucketCovered ==
    \A r \in Procs : pc[r] = "done" => \A b \in Enumerated(r) : Covered(stored[b])

\* C5, amended: after a completed run every bucket of the listing was
\* enumerated and holds an abort rule, or holds a rule of the desired ID
\* without the abort action, which the run reported as already present.
C5_EveryBucketCoveredOrSameId ==
    \A r \in Procs : pc[r] = "done" =>
        /\ Enumerated(r) = BucketSet
        /\ \A b \in Enumerated(r) :
              \/ Covered(stored[b])
              \/ /\ HasDesiredID(stored[b])
                 /\ LinesOf(r, b) = <<[Bucket |-> b, line |-> "exists"]>>

\* A completed run that gave one bucket the abort rule and left another
\* with a rule of the desired ID that aborts nothing.
C5_Witness ==
    \E r \in Procs : \E b1, b2 \in BucketSet :
        /\ pc[r] = "done"
        /\ PutsOf(r, b1) # <<>>
        /\ Covered(stored[b1])
        /\ ~Covered(stored[b2])
        /\ HasDesiredID(stored[b2])

\* What S3 answered to a read.
AnswerHasRules(resp) == "Rules" \in DOMAIN resp

AnswerCode(resp) == IF "Error" \in DOMAIN resp THEN resp.Error.Code ELSE None

\* C6: get_current_lifecycle returns the stored rules when S3 answers with a
\* configuration, the empty list on NoSuchLifecycleConfiguration, and on any
\* other error returns nothing and lets the error end the run, with no put
\* for the bucket; a bucket without configuration gets exactly one put, of
\* the desired rule alone.
C6_ReaderContract ==
    \A r \in Procs : \A k \in 1..Len(reads[r]) :
        LET e == reads[r][k]
        IN  /\ AnswerHasRules(e.resp) =>
                  /\ e.raised = None
                  /\ e.value = e.resp.Rules
                  /\ Merging(r, e.Bucket) =>
                        (current_rules[r] = e.value /\ stored[e.Bucket] = e.value)
            /\ AnswerCode(e.resp) = "NoSuchLifecycleConfiguration" =>
                  /\ e.raised = None
                  /\ e.value = <<>>
                  /\ Merging(r, e.Bucket) =>
                        (current_rules[r] = <<>> /\ stored[e.Bucket] = <<>>)
                  /\ ~Merging(r, e.Bucket) =>
                        /\ Len(PutsOf(r, e.Bucket)) = 1
                        /\ PutsOf(r, e.Bucket)[1].Rules = <<new_lifecycle_rule>>
            /\ AnswerCode(e.resp) \in OtherErrors =>
                  /\ e.raised = AnswerCode(e.resp)
                  /\ e.value = None
                  /\ error[r] = AnswerCode(e.resp)
                  /\ pc[r] = "failed"
                  /\ k = Len(reads[r])
                  /\ PutsOf(r, e.Bucket) = <<>>
                  /\ LinesOf(r, e.Bucket) = <<>>

\* A run that wrote the desired rule alone to a bucket without configuration
\* and then ended on another bucket's AccessDenied.
C6_Witness ==
    \E r \in Procs :
        /\ pc[r] = "failed"
        /\ Len(reads[r]) = 2
        /\ AnswerCode(reads[r][1].resp) = "NoSuchLifecycleConfiguration"
        /\ AnswerCode(reads[r][2].resp) = "AccessDenied"
        /\ stored[reads[r][1].Bucket] = <<new_lifecycle_rule>>

\* The client a bucket's calls are due: the bucket's own region when the
\* account reports the region as other than enabled by default, the global
\* client otherwise; a null location stands for us-east-1.
ExpectedClient(b) ==
    LET region == IF location[b] = None THEN "us-east-1" ELSE location[b]
    IN  IF get_region_opt_status(region).RegionOptStatus # "ENABLED_BY_DEFAULT"
        THEN region
        ELSE "global"

\* C7: every lifecycle read and every lifecycle put of a run goes through
\* the client due to the bucket, whatever region was processed before.
C7_ClientPerRegion ==
    \A r \in Procs :
        /\ \A k \in 1..Len(reads[r]) :
              reads[r][k].client = ExpectedClient(reads[r][k].Bucket)
        /\ \A k \in 1..Len(puts[r]) :
              puts[r][k].client = ExpectedClient(puts[r][k].Bucket)

\* A run that wrote a bucket of an opt-in region through the regional
\* client and then a bucket of null location through the global client.
C7_Witness ==
    \E r \in Procs :
        /\ pc[r] = "done"
        /\ Len(puts[r]) = 2
        /\ puts[r][1].client = "af-south-1"
        /\ puts[r][2].client = "global"
        /\ location[puts[r][2].Bucket] = None

\* The completion line is among the lines run r printed.
CompletionPrinted(r) ==
    \E k \in 1..Len(prints[r]) : prints[r][k].line = "completed"

\* C8: an API error other than the read's NoSuchLifecycleConfiguration ends
\* the run where it happens: the step that raises changes no stored rules,
\* the run makes no call and prints nothing afterwards (the process can
\* only be started afresh, from the top), the puts it made
\* before stay stored, and the completion line is printed exactly by the
\* runs that processed every bucket without such an error.
C8_AbortOnError ==
    /\ [](\A r \in Procs :
            /\ error[r] # None <=> pc[r] = "failed"
            /\ CompletionPrinted(r) <=> pc[r] = "done"
            /\ pc[r] = "done" => \A b \in BucketSet : Processed(r, b)
            /\ pc[r] = "failed" =>
                  \A k \in 1..Len(puts[r]) :
                      puts[r][k].ok => stored[puts[r][k].Bucket] = puts[r][k].Rules)
    /\ [][\A r \in Procs :
            /\ (error[r] = None /\ error'[r] # None) =>
                  (pc'[r] = "failed" /\ stored' = stored)
            /\ pc[r] = "failed" =>
                  \/ /\ pc'[r] = "failed"
                     /\ reads'[r] = reads[r]
                     /\ puts'[r] = puts[r]
                     /\ prints'[r] = prints[r]
                  \/ /\ pc'[r] = "idle"
                     /\ reads'[r] = <<>>
                     /\ puts'[r] = <<>>
                     /\ prints'[r] = <<>>
                     /\ stored' = stored]_vars

\* A run that wrote its first bucket and then failed before it read the
\* second one, which keeps the rules it had.
C8_Witness ==
    \E r \in Procs : \E b \in BucketSet :
        /\ pc[r] = "failed"
        /\ Len(puts[r]) = 1
        /\ puts[r][1].ok
        /\ puts[r][1].Bucket # b
        /\ \A k \in 1..Len(reads[r]) : reads[r][k].Bucket # b
        /\ ~Covered(stored[b])

\* C9: when the rules read from a bucket have pairwise distinct IDs, so have
\* the rules of every put the run attempts on it.
C9_UniqueIdsKept ==
    \A r \in Procs : \A k \in GoodReads(r) :
        UniqueIDs(reads[r][k].value) =>
            \A i \in 1..Len(PutsOf(r, reads[r][k].Bucket)) :
                UniqueIDs(PutsOf(r, reads[r][k].Bucket)[i].Rules)

\* A put of an existing rule followed by the desired rule was attempted.
C9_Witness ==
    \E r \in Procs : \E k \in 1..Len(puts[r]) :
        /\ Len(puts[r][k].Rules) = 2
        /\ puts[r][k].Rules[2] = new_lifecycle_rule
        /\ UniqueIDs(puts[r][k].Rules)

\* Run r's step stores rules in the bucket it is merging.
WritesNow(r) ==
    /\ pc[r] = "merge"
    /\ Len(puts'[r]) > Len(puts[r])
    /\ puts'[r][Len(puts'[r])].ok

\* The bucket's stored rules are no longer the ones run r read.
Stale(r) == stored[bucket_of(r)] # current_rules[r]

\* Every rule of `before` is a rule of `after`.
Kept(before, after) ==
    \A i \in 1..Len(before) : \E j \in 1..Len(after) : after[j] = before[i]

\* C10 as stated, on the interleaving it names: when a run's put lands on a
\* bucket another run has written since this run's read, a rule that was
\* stored is absent after the put.
C10_StalePutLosesRule ==
    [][\A r \in Procs :
        (WritesNow(r) /\ Stale(r)) =>
            ~Kept(stored[bucket_of(r)], stored'[bucket_of(r)])]_vars

\* C10, amended: nothing guards the read-modify-write, so a run's put can
\* land on a bucket another run has written since this run's read; but every
\* run appends the same rule to the same rules read, so such a put stores
\* again what is stored, and no put of any run removes a stored rule.
C10_StalePutStoresTheSame ==
    [][\A r \in Procs :
        WritesNow(r) =>
            /\ Kept(stored[bucket_of(r)], stored'[bucket_of(r)])
            /\ Stale(r) => stored'[bucket_of(r)] = stored[bucket_of(r)]]_vars

\* Two runs read a bucket before either wrote it, and both wrote it.
C10_Witness ==
    \E b \in BucketSet : \E r1, r2 \in Procs :
        /\ r1 # r2
        /\ \E k \in 1..Len(PutsOf(r1, b)) : PutsOf(r1, b)[k].ok
        /\ \E k \in 1..Len(PutsOf(r2, b)) : PutsOf(r2, b)[k].ok

====
